---- MODULE Spec2Model ----
(***************************************************************************)
(* The PSK challenge-response handshake codecs of pkg/proto/handshake.go:  *)
(* Hello, Connect and ConnectResult, their Encode/Decode, and the HMAC     *)
(* proof (Sign/Verify).                                                    *)
(*                                                                         *)
(* Byte strings.  A []byte, a string or a byte array is held as its        *)
(* run-length encoding: a sequence of runs <<b, n>> (byte b repeated n     *)
(* times, n >= 1, adjacent runs of different bytes).  The encoding is      *)
(* canonical, so two byte strings are equal iff their encodings are, and   *)
(* strings of 65535 and 65536 bytes (the limits of the 16-bit length       *)
(* fields) stay small.  Indices are 0-based as in Go.                      *)
(***************************************************************************)
EXTENDS Integers, Sequences, FiniteSets, TLC

VARIABLES
    sndHello,   \* the Hello the server refreshes and encodes
    rcvHello,   \* the Hello the client decodes into
    sndConn,    \* the Connect the client signs and encodes
    rcvConn,    \* the Connect the server decodes into and verifies
    sndRes,     \* the ConnectResult the server fills and encodes
    rcvRes,     \* the ConnectResult the client decodes into
    buf,        \* the caller's reusable buffer: array, length and capacity
    op,         \* the operation that ran last
    err,        \* its outcome: "nil", an Err* value, or "panic"
    ret,        \* what the last Verify returned
    args,       \* the arguments of the last Sign or Verify
    signed,     \* history: the challenge, psk and identity behind sndConn's proof
    seen,       \* history: the challenges of the earlier attempts
    fresh,      \* history: every Refresh so far drew an unused challenge
    dec,        \* history: what the last Connect.Decode read, and where
    dirty,      \* history: a message was encoded into buf since that Decode
    text        \* history: the text of the last successful EncodeMessage

vars == <<sndHello, rcvHello, sndConn, rcvConn, sndRes, rcvRes, buf,
          op, err, ret, args, signed, seen, fresh, dec, dirty, text>>

----------------------------------------------------------------------------
(* Byte strings and Go slices *)

RECURSIVE BLen(_)
BLen(s) == IF s = <<>> THEN 0 ELSE s[1][2] + BLen(Tail(s))

Fill(b, n) == IF n <= 0 THEN <<>> ELSE << <<b, n>> >>

BCat(s, t) ==
    IF s = <<>> THEN t
    ELSE IF t = <<>> THEN s
    ELSE IF s[Len(s)][1] = t[1][1]
         THEN SubSeq(s, 1, Len(s) - 1)
                  \o << <<t[1][1], s[Len(s)][2] + t[1][2]>> >>
                  \o Tail(t)
         ELSE s \o t

RECURSIVE Bytes(_)
Bytes(q) == IF q = <<>> THEN <<>> ELSE BCat(Fill(q[1], 1), Bytes(Tail(q)))

RECURSIVE BTake(_, _)
BTake(s, n) ==
    IF n <= 0 \/ s = <<>> THEN <<>>
    ELSE IF s[1][2] <= n THEN <<s[1]>> \o BTake(Tail(s), n - s[1][2])
    ELSE << <<s[1][1], n>> >>

RECURSIVE BDrop(_, _)
BDrop(s, n) ==
    IF n <= 0 \/ s = <<>> THEN s
    ELSE IF s[1][2] <= n THEN BDrop(Tail(s), n - s[1][2])
    ELSE << <<s[1][1], s[1][2] - n>> >> \o Tail(s)

\* s[lo:hi]
BSlice(s, lo, hi) == BTake(BDrop(s, lo), hi - lo)

\* s[i]
BAt(s, i) == BDrop(s, i)[1][1]

\* A slice expression a[lo:hi] on storage of capacity cap panics unless
\* 0 <= lo <= hi <= cap.
SliceOK(lo, hi, cap) == 0 <= lo /\ lo <= hi /\ hi <= cap

\* copy(dst[off:off+len(data)], data) on the array arr
Overwrite(arr, off, data) ==
    BCat(BCat(BTake(arr, off), data), BDrop(arr, off + BLen(data)))

\* A slice b = [arr, len, cap].  arr holds the bytes of the backing array
\* that can still be read: those below len and those a retained view
\* covers.  The bytes between there and cap are never read by any
\* operation and are not kept.
Contents(b) == BTake(b.arr, b.len)

\* buf = buf[0:0]: an append cursor over the caller's array.  orig is the
\* caller's array as the slices that still view it see it; moved says that
\* append has reallocated, after which arr is a new array and orig is no
\* longer written.
Truncate(b) ==
    [arr |-> b.arr, len |-> 0, cap |-> b.cap, moved |-> FALSE, orig |-> b.arr]

\* append(w, data...): in place while the capacity lasts, else into a new
\* array holding the old contents and data.
GoAppend(w, data) ==
    IF w.len + BLen(data) <= w.cap
    THEN LET a == Overwrite(w.arr, w.len, data)
         IN  [arr |-> a, len |-> w.len + BLen(data), cap |-> w.cap,
              moved |-> w.moved, orig |-> IF w.moved THEN w.orig ELSE a]
    ELSE [arr |-> BCat(BTake(w.arr, w.len), data),
          len |-> w.len + BLen(data), cap |-> w.len + BLen(data),
          moved |-> TRUE, orig |-> w.orig]

\* A []byte field: a view of buf's array (off, len) or storage of its own.
Own(data) == [view |-> FALSE, off |-> 0, len |-> 0, bytes |-> data]
View(off, n) == [view |-> TRUE, off |-> off, len |-> n, bytes |-> <<>>]
SigBytes(sig, arr) ==
    IF sig.view THEN BSlice(arr, sig.off, sig.off + sig.len) ELSE sig.bytes

\* What a []byte field is once the caller's buffer is the cursor w: a view
\* of an array the buffer has left keeps that array's last contents.
SigAfter(sig, w) ==
    IF sig.view /\ w.moved THEN Own(SigBytes(sig, w.orig)) ELSE sig

\* The end of the array a []byte field views
ViewEnd(sig) == IF sig.view THEN sig.off + sig.len ELSE 0

\* The caller's buffer b while the Connect c is retained
Keep(b, c) ==
    [arr |-> BTake(b.arr, IF b.len >= ViewEnd(c.Signature)
                          THEN b.len ELSE ViewEnd(c.Signature)),
     len |-> b.len, cap |-> b.cap]

\* The caller hands Decode the buffer after reading b into it (b being what
\* it holds already, or freshly received bytes).
Load(b) == GoAppend(Truncate(buf), b)

----------------------------------------------------------------------------
(* Bounds of the model and the inputs drawn within them *)

\* how many distinct values the random source can produce
NChallenges == 1
\* how many pre-shared keys there are
NPsks == 2
\* the longest short identity, proof or payload that is enumerated
MaxShort == 2
\* the capacity of the buffer the caller starts with
BufCap == 128

\* uint16 and uint8 arithmetic wrap at these
U16 == 65536
U8 == 256

ChallengeLen == 16
MsgCap == 31
Sha512Size == 64

\* the challenge 0x00..0x0F, and NChallenges others
Challenge0F == Bytes(<<0, 1, 2, 3, 4, 5, 6, 7, 8, 9, 10, 11, 12, 13, 14, 15>>)
Challenges ==
    {Fill(200 + i, ChallengeLen) : i \in 1..NChallenges} \cup {Challenge0F}

Psks == {BCat(Bytes(<<116, 111, 112>>), Fill(48 + i, 1)) : i \in 1..NPsks}

----------------------------------------------------------------------------
(* Hello *)

helloMagic == Bytes(<<117, 116, 116, 0, 0, 0>>)

HelloLen == BLen(helloMagic) + ChallengeLen

\* Hello.Encode: the append cursor it returns
HelloEncodeOf(h, b) == GoAppend(GoAppend(Truncate(b), helloMagic), h.Challenge)

\* Hello.Decode had it compared the length alone and not the tag
HelloDecodeAnyTag(h, s) ==
    IF s.len < HelloLen
    THEN [err |-> "ErrInvalidPacket", h |-> h]
    ELSE [err |-> "nil",
          h |-> [Challenge |->
                   BSlice(s.arr, BLen(helloMagic), 16 + BLen(helloMagic))]]

\* Hello.Decode of the slice s: the error and the Hello after
HelloDecodeOf(h, s) ==
    IF s.len < HelloLen
          \/ helloMagic # BSlice(s.arr, 0, BLen(helloMagic))
    THEN [err |-> "ErrInvalidPacket", h |-> h]
    ELSE [err |-> "nil",
          h |-> [Challenge |->
                   BSlice(s.arr, BLen(helloMagic), 16 + BLen(helloMagic))]]

----------------------------------------------------------------------------
(* Connect *)

\* hmac.New(sha512.New, key) over msg.  The digest cannot be computed here;
\* it is replaced by a collision-free stand-in of the same size: key and msg,
\* each behind its length, zero-padded to 64 bytes.  It is injective on the
\* keys and messages of InHmacDomain, to which Sign and Verify are confined.
hmacSum(key, msg) ==
    LET p == BCat(BCat(Fill(BLen(key), 1), key), BCat(Fill(BLen(msg), 1), msg))
    IN  BCat(p, Fill(0, Sha512Size - BLen(p)))

\* Connect.HMAC had it not written the identity behind "acl#"
HMACInputNoIdentity(c, challenge) ==
    BCat(BCat(Bytes(<<99, 104, 97>>), challenge), Bytes(<<97, 99, 108, 35>>))

\* Connect.HMAC: the byte string fed to the HMAC
HMACInput(c, challenge) ==
    BCat(BCat(Bytes(<<99, 104, 97>>), challenge),
         BCat(Bytes(<<97, 99, 108, 35>>), c.ACLKey))

InHmacDomain(c, challenge, psk) ==
    BLen(psk) + BLen(HMACInput(c, challenge)) + 2 <= Sha512Size

\* Connect.HMAC had it not written the challenge behind "cha"
HMACNoChallenge(c, challenge, psk) == hmacSum(psk, HMACInput(c, <<>>))

\* Connect.HMAC
HMAC(c, challenge, psk) == hmacSum(psk, HMACInput(c, challenge))

\* Connect.Sign
SignOf(c, challenge, psk) ==
    [c EXCEPT !.Signature = Own(HMAC(c, challenge, psk))]

\* Connect.Verify on a Connect whose Signature may view the array arr
VerifyOf(c, arr, challenge, psk) ==
    SigBytes(c.Signature, arr) = HMAC(c, challenge, psk)

\* binary.BigEndian.PutUint16 of uint16(n)
PutUint16(n) == Bytes(<<(n % U16) \div 256, (n % U16) % 256>>)

\* binary.BigEndian.Uint16(arr[i:i+2])
Uint16(arr, i) == BAt(arr, i) * 256 + BAt(arr, i + 1)

\* Connect.Encode into the slice b: the error and the append cursor
ConnectEncodeOf(c, b) ==
    LET w0  == Truncate(b)
        sig == SigBytes(c.Signature, b.arr)
    IN  IF BLen(c.ACLKey) > 65535 \/ BLen(sig) > 65535
        THEN [err |-> "ErrContentTooLong", w |-> w0]
        ELSE LET w1 == GoAppend(w0, PutUint16(BLen(c.ACLKey)))
                 w2 == GoAppend(w1, PutUint16(BLen(sig)))
                 w3 == GoAppend(w2, c.ACLKey)
                 w4 == GoAppend(w3, SigBytes(c.Signature, w3.orig))
             IN  [err |-> "nil", w |-> w4]

\* Connect.Decode had it copied the proof out of the buffer, as it does
\* the identity
ConnectDecodeCopying(c, s) ==
    IF s.len < 4 THEN [err |-> "ErrInvalidPacket", c |-> c]
    ELSE
      LET msgLen  == Uint16(s.arr, 0)
          signLen == Uint16(s.arr, 2)
          hi1     == (4 + msgLen) % U16
          hi2     == (hi1 + signLen) % U16
          c1      == [c EXCEPT !.ACLKey = BSlice(s.arr, 4, hi1)]
      IN  IF msgLen + signLen + 4 > s.len
          THEN [err |-> "ErrInvalidPacket", c |-> c]
          ELSE IF ~SliceOK(4, hi1, s.cap)
          THEN [err |-> "panic", c |-> c]
          ELSE IF ~SliceOK(hi1, hi2, s.cap)
          THEN [err |-> "panic", c |-> c1]
          ELSE [err |-> "nil",
                c |-> [c1 EXCEPT !.Signature = Own(BSlice(s.arr, hi1, hi2))]]

\* Connect.Decode of the slice s: the error and the Connect
\* after.  msgLen and signLen are uint16, and so are the slice bounds
\* 4+msgLen and 4+msgLen+signLen computed from them; the length check alone
\* is made on ints.
ConnectDecodeOf(c, s) ==
    IF s.len < 4 THEN [err |-> "ErrInvalidPacket", c |-> c]
    ELSE
      LET msgLen  == Uint16(s.arr, 0)
          signLen == Uint16(s.arr, 2)
          hi1     == (4 + msgLen) % U16
          hi2     == (hi1 + signLen) % U16
          c1      == [c EXCEPT !.ACLKey = BSlice(s.arr, 4, hi1)]
      IN  IF msgLen + signLen + 4 > s.len
          THEN [err |-> "ErrInvalidPacket", c |-> c]
          ELSE IF ~SliceOK(4, hi1, s.cap)
          THEN [err |-> "panic", c |-> c]
          ELSE IF ~SliceOK(hi1, hi2, s.cap)
          THEN [err |-> "panic", c |-> c1]
          ELSE [err |-> "nil",
                c |-> [c1 EXCEPT !.Signature = View(hi1, hi2 - hi1)]]

----------------------------------------------------------------------------
(* ConnectResult *)

\* ConnectResult.EncodeMessage
EncodeMessageOf(r, raw) ==
    IF BLen(raw) > MsgCap
    THEN [err |-> "ErrBufferTooShort", r |-> r]
    ELSE [err |-> "nil",
          r |-> [r EXCEPT !.RawMsg = Overwrite(r.RawMsg, 0, raw),
                          !.MsgLen = BLen(raw)]]

\* ConnectResult.DecodeMessage
DecodeMessageOf(r) == r.RawMsg

\* ConnectResult.Encode into the slice b: the outcome and the append cursor
ResultEncodeOf(r, b) ==
    LET w1 == GoAppend(Truncate(b), Fill(IF r.Welcome THEN 1 ELSE 0, 1))
        w2 == GoAppend(w1, Fill(r.MsgLen % U8, 1))
    IN  IF ~SliceOK(0, r.MsgLen, MsgCap)
        THEN [err |-> "panic", w |-> w2]
        ELSE [err |-> "nil", w |-> GoAppend(w2, BTake(r.RawMsg, r.MsgLen))]

\* ConnectResult.Decode had it recorded the declared length, as it does the
\* accepted flag, before comparing it with the buffer
ResultDecodeEager(r, s) ==
    IF s.len < 2 THEN [err |-> "ErrInvalidPacket", r |-> r]
    ELSE
      LET msgLen == BAt(s.arr, 1)
          r2     == [r EXCEPT !.Welcome = BAt(s.arr, 0) > 0, !.MsgLen = msgLen]
      IN  IF (2 + msgLen) % U8 > s.len
          THEN [err |-> "ErrInvalidPacket", r |-> r2]
          ELSE IF ~SliceOK(0, msgLen, MsgCap)
                    \/ ~SliceOK(2, 2 + msgLen, s.cap)
          THEN [err |-> "panic", r |-> r2]
          ELSE [err |-> "nil",
                r |-> [r2 EXCEPT !.RawMsg =
                         Overwrite(r2.RawMsg, 0, BSlice(s.arr, 2, 2 + msgLen))]]

\* ConnectResult.Decode of the slice s: the outcome and the
\* ConnectResult after.  msgLen is a uint8, and so is 2+msgLen.
ResultDecodeOf(r, s) ==
    IF s.len < 2 THEN [err |-> "ErrInvalidPacket", r |-> r]
    ELSE
      LET msgLen == BAt(s.arr, 1)
          r1     == [r EXCEPT !.Welcome = BAt(s.arr, 0) > 0]
          r2     == [r1 EXCEPT !.MsgLen = msgLen]
      IN  IF (2 + msgLen) % U8 > s.len
          THEN [err |-> "ErrInvalidPacket", r |-> r1]
          ELSE IF ~SliceOK(0, msgLen, MsgCap)
                    \/ ~SliceOK(2, 2 + msgLen, s.cap)
          THEN [err |-> "panic", r |-> r2]
          ELSE [err |-> "nil",
                r |-> [r2 EXCEPT !.RawMsg =
                         Overwrite(r2.RawMsg, 0, BSlice(s.arr, 2, 2 + msgLen))]]

----------------------------------------------------------------------------
(* State *)

NoArgs == [challenge |-> <<>>, psk |-> <<>>]
NoSign == [valid |-> FALSE, challenge |-> <<>>, psk |-> <<>>, id |-> <<>>]
NoDec == [valid |-> FALSE, id |-> <<>>, proof |-> <<>>, off |-> 0]

\* The zero values of the three structs, and a nil buffer
ZeroHello == [Challenge |-> Fill(0, ChallengeLen)]
ZeroConnect == [ACLKey |-> <<>>, Signature |-> Own(<<>>)]
ZeroResult == [Welcome |-> FALSE, RawMsg |-> Fill(0, MsgCap), MsgLen |-> 0]

Init ==
    /\ sndHello = ZeroHello /\ rcvHello = ZeroHello
    /\ sndConn = ZeroConnect /\ rcvConn = ZeroConnect
    /\ sndRes = ZeroResult /\ rcvRes = ZeroResult
    /\ buf = [arr |-> <<>>, len |-> 0, cap |-> BufCap]
    /\ op = "init" /\ err = "nil" /\ ret = FALSE /\ args = NoArgs
    /\ signed = NoSign
    /\ seen = {} /\ fresh = TRUE
    /\ dec = NoDec /\ dirty = FALSE /\ text = <<>>

\* What the caller's buffer is after a call that returned the cursor w
\* (buf = x.Encode(buf)), and after one that did not return it.
Returned(w) == [arr |-> w.arr, len |-> w.len, cap |-> w.cap]
NotReturned(w) == [arr |-> w.orig, len |-> buf.len, cap |-> buf.cap]

\* The frame of a call: the operation's name, its outcome, and the
\* bookkeeping no operation but Sign and Verify sets.
Called(name, e) == op' = name /\ err' = e
Plain == ret' = FALSE /\ args' = NoArgs

----------------------------------------------------------------------------
(* Operations on Hello *)

\* Hello.Refresh: rand.Read may produce any value, the current one included
HelloRefresh ==
    \E c \in Challenges :
        /\ sndHello' = [Challenge |-> c]
        /\ seen' = seen \cup {sndHello.Challenge}
        /\ fresh' = (fresh /\ c \notin seen \cup {sndHello.Challenge})
        /\ Called("HelloRefresh", "nil") /\ Plain
        /\ UNCHANGED <<rcvHello, sndConn, rcvConn, sndRes, rcvRes, buf,
                       signed, dec, dirty, text>>

\* buf = sndHello.Encode(buf)
HelloEncode ==
    LET w == HelloEncodeOf(sndHello, buf)
    IN  /\ rcvConn' = [rcvConn EXCEPT !.Signature = SigAfter(@, w)]
        /\ buf' = Keep(Returned(w), rcvConn')
        /\ dirty' = TRUE
        /\ Called("HelloEncode", "nil") /\ Plain
        /\ UNCHANGED <<sndHello, rcvHello, sndConn, sndRes, rcvRes,
                       signed, seen, fresh, dec, text>>

\* rcvHello.Decode(buf), on the buffer as it is or on one of the inputs
HelloDecodeFrom(inputs) ==
    \E b \in inputs \cup {Contents(buf)} :
        LET w == Load(b)
            r == HelloDecodeOf(rcvHello, Returned(w))
        IN  /\ rcvHello' = r.h
            /\ rcvConn' = [rcvConn EXCEPT !.Signature = SigAfter(@, w)]
            /\ buf' = Keep(Returned(w), rcvConn')
            /\ Called("HelloDecode", r.err) /\ Plain
            /\ UNCHANGED <<sndHello, sndConn, sndRes, rcvRes,
                           signed, seen, fresh, dec, dirty, text>>

----------------------------------------------------------------------------
(* Operations on Connect *)

\* sndConn = Connect{ACLKey: id, Signature: proof}
NewConnectFrom(ids, proofs) ==
    \E id \in ids, p \in proofs :
        /\ sndConn' = [ACLKey |-> id, Signature |-> Own(p)]
        /\ signed' = NoSign
        /\ Called("NewConnect", "nil") /\ Plain
        /\ UNCHANGED <<sndHello, rcvHello, rcvConn, sndRes, rcvRes, buf,
                       seen, fresh, dec, dirty, text>>

\* sndConn.Sign(challenge, psk)
SignFrom(challenges, psks) ==
    \E ch \in challenges, k \in psks :
        /\ InHmacDomain(sndConn, ch, k)
        /\ sndConn' = SignOf(sndConn, ch, k)
        /\ args' = [challenge |-> ch, psk |-> k]
        /\ signed' = [valid |-> TRUE, challenge |-> ch, psk |-> k,
                       id |-> sndConn.ACLKey]
        /\ Called("Sign", "nil") /\ ret' = FALSE
        /\ UNCHANGED <<sndHello, rcvHello, rcvConn, sndRes, rcvRes, buf,
                       seen, fresh, dec, dirty, text>>

\* rcvConn = Connect{ACLKey: id, Signature: sndConn.Signature}: the proof
\* of sndConn carried under the identity id
CarryFrom(ids) ==
    \E id \in ids :
        /\ rcvConn' = [ACLKey |-> id,
                       Signature |-> Own(SigBytes(sndConn.Signature, buf.arr))]
        /\ Called("Carry", "nil") /\ Plain
        /\ UNCHANGED <<sndHello, rcvHello, sndConn, sndRes, rcvRes, buf,
                       signed, seen, fresh, dec, dirty, text>>

\* rcvConn.Signature[i] ^= 1: one bit of the carried proof is flipped
Tamper ==
    \E i \in {Sha512Size - 1} :
        LET sig == SigBytes(rcvConn.Signature, buf.arr)
        IN  /\ i < BLen(sig)
            /\ rcvConn' = [rcvConn EXCEPT !.Signature =
                  Own(Overwrite(sig, i,
                        Fill(IF BAt(sig, i) % 2 = 0 THEN BAt(sig, i) + 1
                                                    ELSE BAt(sig, i) - 1, 1)))]
            /\ Called("Tamper", "nil") /\ Plain
            /\ UNCHANGED <<sndHello, rcvHello, sndConn, sndRes, rcvRes, buf,
                           signed, seen, fresh, dec, dirty, text>>

\* rcvConn.Verify(challenge, psk)
VerifyFrom(challenges, psks) ==
    \E ch \in challenges, k \in psks :
        /\ InHmacDomain(rcvConn, ch, k)
        /\ ret' = VerifyOf(rcvConn, buf.arr, ch, k)
        /\ args' = [challenge |-> ch, psk |-> k]
        /\ Called("Verify", "nil")
        /\ UNCHANGED <<sndHello, rcvHello, sndConn, rcvConn, sndRes, rcvRes,
                       buf, signed, seen, fresh, dec, dirty, text>>

\* buf, err = sndConn.Encode(buf); on an error the caller keeps its buffer
ConnectEncode ==
    LET r == ConnectEncodeOf(sndConn, buf)
    IN  /\ rcvConn' = [rcvConn EXCEPT !.Signature = SigAfter(@, r.w)]
        /\ buf' = Keep(IF r.err = "nil" THEN Returned(r.w)
                                        ELSE NotReturned(r.w), rcvConn')
        /\ dirty' = (dirty \/ r.err = "nil")
        /\ Called("ConnectEncode", r.err) /\ Plain
        /\ UNCHANGED <<sndHello, rcvHello, sndConn, sndRes, rcvRes,
                       signed, seen, fresh, dec, text>>

\* rcvConn.Decode(buf), on the buffer as it is or on one of the inputs
ConnectDecodeFrom(inputs) ==
    \E b \in inputs \cup {Contents(buf)} :
        LET w == Load(b)
            c == [rcvConn EXCEPT !.Signature = SigAfter(@, w)]
            r == ConnectDecodeOf(c, Returned(w))
        IN  /\ rcvConn' = r.c
            /\ buf' = Keep(Returned(w), rcvConn')
            /\ dec' = IF r.err = "nil"
                      THEN [valid |-> TRUE, id |-> r.c.ACLKey,
                            proof |-> SigBytes(r.c.Signature, w.arr),
                            off |-> r.c.Signature.off]
                      ELSE IF r.err = "panic" THEN NoDec ELSE dec
            /\ dirty' = (dirty /\ r.err # "nil")
            /\ Called("ConnectDecode", r.err) /\ Plain
            /\ UNCHANGED <<sndHello, rcvHello, sndConn, sndRes, rcvRes,
                           signed, seen, fresh, text>>

----------------------------------------------------------------------------
(* Operations on ConnectResult *)

\* sndRes.Welcome = b
SetWelcome ==
    \E b \in BOOLEAN :
        /\ sndRes' = [sndRes EXCEPT !.Welcome = b]
        /\ Called("SetWelcome", "nil") /\ Plain
        /\ UNCHANGED <<sndHello, rcvHello, sndConn, rcvConn, rcvRes, buf,
                       signed, seen, fresh, dec, dirty, text>>

\* sndRes.EncodeMessage(text)
EncodeMessageFrom(texts) ==
    \E t \in texts :
        LET r == EncodeMessageOf(sndRes, t)
        IN  /\ sndRes' = r.r
            /\ text' = IF r.err = "nil" THEN t ELSE text
            /\ Called("EncodeMessage", r.err) /\ Plain
            /\ UNCHANGED <<sndHello, rcvHello, sndConn, rcvConn, rcvRes, buf,
                           signed, seen, fresh, dec, dirty>>

\* buf = sndRes.Encode(buf); a panic returns nothing
ResultEncode ==
    LET r == ResultEncodeOf(sndRes, buf)
    IN  /\ rcvConn' = [rcvConn EXCEPT !.Signature = SigAfter(@, r.w)]
        /\ buf' = Keep(IF r.err = "nil" THEN Returned(r.w)
                                        ELSE NotReturned(r.w), rcvConn')
        /\ dirty' = TRUE
        /\ Called("ResultEncode", r.err) /\ Plain
        /\ UNCHANGED <<sndHello, rcvHello, sndConn, sndRes, rcvRes,
                       signed, seen, fresh, dec, text>>

\* rcvRes.Decode(buf), on the buffer as it is or on one of the inputs
ResultDecodeFrom(inputs) ==
    \E b \in inputs \cup {Contents(buf)} :
        LET w == Load(b)
            r == ResultDecodeOf(rcvRes, Returned(w))
        IN  /\ rcvRes' = r.r
            /\ rcvConn' = [rcvConn EXCEPT !.Signature = SigAfter(@, w)]
            /\ buf' = Keep(Returned(w), rcvConn')
            /\ Called("ResultDecode", r.err) /\ Plain
            /\ UNCHANGED <<sndHello, rcvHello, sndConn, sndRes,
                           signed, seen, fresh, dec, dirty, text>>

----------------------------------------------------------------------------
(* The Hello codec on its own *)

\* What Hello.Encode writes for the challenge c
HelloWire(c) == BCat(helloMagic, c)

\* Buffers handed to Hello.Decode: well-formed, cut by one byte, longer by
\* one byte, with one byte of the tag changed, and short ones
HelloInputs ==
    UNION {
        {HelloWire(c), BTake(HelloWire(c), HelloLen - 1),
         BCat(HelloWire(c), Fill(7, 1)),
         Overwrite(HelloWire(c), 0, Fill(118, 1)),
         Overwrite(HelloWire(c), 5, Fill(1, 1)),
         BCat(Fill(0, BLen(helloMagic)), c)} : c \in Challenges }
    \cup {BTake(helloMagic, n) : n \in 0..BLen(helloMagic)}

HelloDecode == HelloDecodeFrom(HelloInputs)

NextHello == HelloRefresh \/ HelloEncode \/ HelloDecode

SpecHello == Init /\ [][NextHello]_vars

\* C8: Hello.Encode returns exactly 22 bytes (= Len()), the 6-byte tag then
\* the 16-byte challenge; Hello.Decode fails with InvalidPacket iff the input
\* is shorter than 22 bytes or its first 6 bytes differ from the tag, and on
\* success sets the challenge to input bytes 6..21; Decode(Encode(h))
\* reproduces h's challenge.
HelloFraming ==
    /\ op = "HelloEncode" =>
          /\ buf.len = 22 /\ buf.len = HelloLen
          /\ BSlice(Contents(buf), 0, 6) = Bytes(<<117, 116, 116, 0, 0, 0>>)
          /\ BSlice(Contents(buf), 6, 22) = sndHello.Challenge
    /\ op = "HelloDecode" =>
          /\ err \in {"nil", "ErrInvalidPacket"}
          /\ err = "ErrInvalidPacket" <=>
                (buf.len < 22
                   \/ BTake(Contents(buf), 6) # Bytes(<<117, 116, 116, 0, 0, 0>>))
          /\ err = "nil" => rcvHello.Challenge = BSlice(Contents(buf), 6, 22)
          /\ Contents(buf) = Contents(Returned(HelloEncodeOf(sndHello, buf)))
                => err = "nil" /\ rcvHello.Challenge = sndHello.Challenge

\* A refreshed Hello was encoded and decoded back, and a buffer with a
\* wrong tag was refused.
HelloFramingWitness ==
    /\ op = "HelloDecode" /\ err = "nil"
    /\ rcvHello.Challenge = sndHello.Challenge
    /\ sndHello.Challenge # Fill(0, ChallengeLen)
    /\ Contents(buf) = HelloWire(sndHello.Challenge)

----------------------------------------------------------------------------
(* The Connect codec on its own *)

\* Identities and proofs: short ones, and ones at and around the 16-bit limit
Identities == {Fill(97, n) : n \in {0, MaxShort, 65535}}
Proofs == {Fill(112, n) : n \in {MaxShort, 65535}}

\* What Connect.Encode writes for an identity of i bytes and a proof of p
ConnectWire(i, p) ==
    BCat(BCat(PutUint16(i), PutUint16(p)), BCat(Fill(97, i), Fill(112, p)))

\* Buffers handed to Connect.Decode: a header declaring i and p bytes over
\* a payload that is exact, one byte short or one byte long; and buffers
\* shorter than the header
ConnectInputs ==
    UNION {
        {ConnectWire(i, p), BCat(ConnectWire(i, p), Fill(0, 1)),
         BTake(ConnectWire(i, p), 4 + i + p - 1)} :
            i \in {MaxShort, 65532}, p \in {MaxShort} }
    \cup {Fill(0, n) : n \in 0..3}

NewConnect == NewConnectFrom(Identities, Proofs)

ConnectDecode == ConnectDecodeFrom(ConnectInputs)

NextConnect == NewConnect \/ ConnectEncode \/ ConnectDecode

SpecConnect == Init /\ [][NextConnect]_vars

\* The bytes sndConn.Encode returns
SndConnWire == Contents(Returned(ConnectEncodeOf(sndConn, buf).w))

\* C1: for every identity and every proof of at most 65535 bytes
\* Connect.Encode succeeds, and Connect.Decode of the encoded bytes succeeds
\* and yields the same identity and the same proof.
ConnectRoundTrip ==
    (BLen(sndConn.ACLKey) <= 65535
        /\ BLen(SigBytes(sndConn.Signature, buf.arr)) <= 65535) =>
      /\ op = "ConnectEncode" => err = "nil"
      /\ (op = "ConnectDecode" /\ Contents(buf) = SndConnWire) =>
            /\ err = "nil"
            /\ rcvConn.ACLKey = sndConn.ACLKey
            /\ SigBytes(rcvConn.Signature, buf.arr)
                 = SigBytes(sndConn.Signature, buf.arr)

\* C6: Connect.Decode fails with InvalidPacket exactly when the buffer has
\* fewer than 4 bytes or idLen + proofLen + 4 > len(buffer); in every other
\* case it succeeds with the identity and the proof that follow the header;
\* and the proof it keeps never reaches outside the buffer.
ConnectDecodeBounded ==
    op = "ConnectDecode" =>
      LET short == buf.len < 4
          idLen == Uint16(buf.arr, 0)
          proofLen == Uint16(buf.arr, 2)
      IN  /\ err = "ErrInvalidPacket" <=>
                (short \/ idLen + proofLen + 4 > buf.len)
          /\ ~(short \/ idLen + proofLen + 4 > buf.len) =>
                /\ err = "nil"
                /\ rcvConn.ACLKey = BSlice(Contents(buf), 4, 4 + idLen)
                /\ SigBytes(rcvConn.Signature, buf.arr)
                     = BSlice(Contents(buf), 4 + idLen, 4 + idLen + proofLen)
          /\ rcvConn.Signature.view =>
                rcvConn.Signature.off + rcvConn.Signature.len <= buf.len

----------------------------------------------------------------------------
(* The ConnectResult codec on its own *)

\* Texts handed to EncodeMessage: a longer one, a shorter one of other
\* bytes, one that fills the storage and one that is a byte too long
Texts ==
    {Fill(104, MaxShort + 3), Fill(105, MaxShort),
     Fill(104, MsgCap), Fill(104, MsgCap + 1)}

\* What ConnectResult.Encode writes: flag w, declared length l, n text bytes
ResultWire(w, l, n) == BCat(BCat(Fill(w, 1), Fill(l, 1)), Fill(120, n))

\* Buffers handed to ConnectResult.Decode: well-formed, one byte short,
\* declaring more than the storage holds, declaring 254 and 255 bytes over
\* a short buffer, and a buffer shorter than the header
ResultInputs ==
    UNION {
        {ResultWire(w, MaxShort, MaxShort), ResultWire(w, MaxShort, MaxShort - 1),
         ResultWire(w, MsgCap + 1, MsgCap + 1),
         ResultWire(w, 254, 0), ResultWire(w, 255, 1)} : w \in {0, 1} }
    \cup {Fill(1, 1)}

EncodeMessage == EncodeMessageFrom(Texts)

ResultDecode == ResultDecodeFrom(ResultInputs)

NextResult == SetWelcome \/ EncodeMessage \/ ResultEncode \/ ResultDecode

SpecResult == Init /\ [][NextResult]_vars

\* The bytes sndRes.Encode returns
SndResWire == Contents(Returned(ResultEncodeOf(sndRes, buf).w))

\* t followed by zero bytes up to the capacity of the message storage
Padded(t) == BCat(t, Fill(0, MsgCap - BLen(t)))

\* C2: for every buffer whose second byte declares a length above 31,
\* ConnectResult.Decode fails with InvalidPacket before copying and never
\* leaves the recorded length MsgLen above 31.
ResultDecodeRevalidates ==
    /\ rcvRes.MsgLen <= MsgCap
    /\ (op = "ResultDecode" /\ buf.len >= 2 /\ BAt(buf.arr, 1) > MsgCap)
          => err = "ErrInvalidPacket"

\* C3: ConnectResult.Decode fails with InvalidPacket whenever the buffer has
\* fewer than 2 bytes or 2 + declaredLength exceeds the buffer length, for
\* every declared length 0..255, the sum taken as an ordinary integer.
ResultDecodeTruncated ==
    (op = "ResultDecode" /\ (buf.len < 2 \/ 2 + BAt(buf.arr, 1) > buf.len))
        => err = "ErrInvalidPacket"

\* C7: after a successful EncodeMessage(text) on the sender, possibly after
\* earlier ones, and for any receiver, receiver.Decode(sender.Encode(buf))
\* succeeds, the encoded form is 2 + len(text) bytes, the receiver's flag
\* and recorded length are the sender's, and DecodeMessage on either object
\* returns text followed only by zero bytes up to the 31-byte capacity.
ResultRoundTrip ==
    /\ (op = "EncodeMessage" /\ err = "nil")
          => DecodeMessageOf(sndRes) = Padded(text)
    /\ (op = "ResultDecode" /\ Contents(buf) = SndResWire)
          => /\ err = "nil"
             /\ buf.len = 2 + BLen(text)
             /\ rcvRes.Welcome = sndRes.Welcome
             /\ rcvRes.MsgLen = BLen(text)
             /\ DecodeMessageOf(rcvRes) = Padded(text)
             /\ DecodeMessageOf(sndRes) = Padded(text)

----------------------------------------------------------------------------
(* Sign and Verify on their own *)

\* Challenges as Sign and Verify take them, a []byte of any length: two of
\* 16 bytes, and one of them followed by "acl#b"
AuthChallenges ==
    {Challenge0F, Fill(201, ChallengeLen),
     BCat(Challenge0F, Bytes(<<97, 99, 108, 35, 98>>))}

\* Identities: "a" and "bacl#a"
AuthIdentities == {Bytes(<<97>>), Bytes(<<98, 97, 99, 108, 35, 97>>)}

AuthNewConnect == NewConnectFrom(AuthIdentities, {<<>>})

Sign == SignFrom(AuthChallenges, Psks)

Carry == CarryFrom(AuthIdentities)

Verify == VerifyFrom(AuthChallenges, Psks)

NextAuth == AuthNewConnect \/ Sign \/ Carry \/ Tamper \/ Verify

SpecAuth == Init /\ [][NextAuth]_vars

\* rcvConn carries the proof the last Sign put into sndConn
CarriesSigned ==
    /\ signed.valid
    /\ SigBytes(rcvConn.Signature, buf.arr) = SigBytes(sndConn.Signature, buf.arr)

\* Verify was called with what Sign was called with, on the same identity
SameAsSigned ==
    /\ args.challenge = signed.challenge
    /\ args.psk = signed.psk
    /\ rcvConn.ACLKey = signed.id

\* C4 as stated: a Connect carrying the signed proof verifies iff challenge,
\* psk and identity are those of Sign, and with a changed proof it does not.
VerifyIffSame ==
    op = "Verify" =>
      /\ CarriesSigned => (ret <=> SameAsSigned)
      /\ (signed.valid /\ ~CarriesSigned /\ SameAsSigned) => ~ret

\* C4, amended: the same, for a Verify whose challenge has the length of the
\* challenge that was signed (as two 16-byte Hello challenges have).
VerifyIffSameLength ==
    (op = "Verify" /\ BLen(args.challenge) = BLen(signed.challenge)) =>
      /\ CarriesSigned => (ret <=> SameAsSigned)
      /\ (signed.valid /\ ~CarriesSigned /\ SameAsSigned) => ~ret

\* A carried proof was verified with the arguments of Sign, and accepted.
VerifyIffSameLengthWitness ==
    /\ op = "Verify" /\ ret /\ CarriesSigned /\ SameAsSigned
    /\ BLen(args.challenge) = ChallengeLen

----------------------------------------------------------------------------
(* Handshake attempts: the server refreshes its Hello, the client signs a
   Connect against the server's current challenge and sends it, the server
   verifies what it holds against its current challenge *)

\* The identity "svc-a"
SvcA == Bytes(<<115, 118, 99, 45, 97>>)

\* The PSK "topsecret"
TopSecret == Bytes(<<116, 111, 112, 115, 101, 99, 114, 101, 116>>)

AttemptNewConnect == NewConnectFrom({SvcA}, {<<>>})

AttemptSign == SignFrom({sndHello.Challenge}, {TopSecret})

AttemptConnectDecode == ConnectDecodeFrom({})

AttemptVerify == VerifyFrom({sndHello.Challenge}, {TopSecret})

NextAttempts ==
    \/ HelloRefresh \/ AttemptNewConnect \/ AttemptSign
    \/ ConnectEncode \/ AttemptConnectDecode \/ AttemptVerify

SpecAttempts == Init /\ [][NextAttempts]_vars

\* The Connect the server holds was signed against the challenge c
SignedAgainst(c) ==
    SigBytes(rcvConn.Signature, buf.arr) = HMAC(rcvConn, c, args.psk)

\* C5: when every Refresh drew a challenge unused so far, a Connect signed
\* against the challenge of an earlier attempt (same identity, same PSK) is
\* rejected by Verify in every later attempt; one that is accepted was
\* signed against the challenge of the current attempt.
ReplayRejected ==
    (op = "Verify" /\ fresh) =>
      /\ (\E c \in seen : SignedAgainst(c)) => ~ret
      /\ ret => SignedAgainst(sndHello.Challenge)

\* A Connect signed in an earlier attempt was verified, and rejected, in a
\* later one whose challenge was fresh.
ReplayRejectedWitness ==
    /\ op = "Verify" /\ fresh /\ ~ret
    /\ \E c \in seen : c \in Challenges /\ SignedAgainst(c)
    /\ sndHello.Challenge \in Challenges

----------------------------------------------------------------------------
(* One buffer for everything: the server decodes a Connect from the buffer,
   encodes other messages into it, and verifies the Connect it holds *)

\* A short identity, and one so long that no ConnectResult reaches the
\* proof behind it (4 + 30 > 2 + 31)
AliasNewConnect == NewConnectFrom({Fill(97, MaxShort), Fill(97, MsgCap - 1)}, {<<>>})

AliasEncodeMessage == EncodeMessageFrom({Fill(104, MaxShort + 3)})

NextAlias ==
    \/ AliasNewConnect \/ AttemptSign \/ ConnectEncode \/ AttemptConnectDecode
    \/ HelloEncode \/ AliasEncodeMessage \/ ResultEncode \/ AttemptVerify

SpecAlias == Init /\ [][NextAlias]_vars

\* The Connect the server holds would have verified as it was decoded
DecodedVerifiable ==
    dec.valid /\ dec.proof = HMAC(rcvConn, args.challenge, args.psk)

\* What the buffer's array holds now where the decoded proof was
ProofPlaceNow == BSlice(buf.arr, dec.off, dec.off + BLen(dec.proof))

\* C10 as stated: the decoded identity is a copy that writes to the buffer
\* do not change; the decoded proof is a view of the buffer, so that once any
\* message has been encoded into the buffer a Connect that would have verified
\* is rejected.
AliasedProofRejected ==
    /\ dec.valid => rcvConn.ACLKey = dec.id
    /\ (op = "Verify" /\ DecodedVerifiable /\ dirty) => ~ret

\* C10, amended: the decoded identity is a copy; the decoded proof is a view
\* of the buffer, so that a Connect that would have verified is accepted iff
\* the buffer still holds the proof's bytes where they were decoded: an
\* encode that ends before the proof, or rewrites the same bytes, leaves it
\* verifiable.
AliasedProofFollowsBuffer ==
    /\ dec.valid => rcvConn.ACLKey = dec.id
    /\ (op = "Verify" /\ DecodedVerifiable) => (ret <=> ProofPlaceNow = dec.proof)

\* A decoded Connect that would have verified was rejected after a message
\* was encoded over its proof.
AliasedProofFollowsBufferWitness ==
    /\ op = "Verify" /\ DecodedVerifiable /\ dirty /\ ~ret
    /\ ProofPlaceNow # dec.proof
    /\ rcvConn.ACLKey = dec.id

----------------------------------------------------------------------------
(* The operations that can report an error, each on receivers that already
   hold values *)

\* Buffers handed to the three Decode operations: a well-formed message of
\* each type, and malformed ones
ErrInputs ==
    {HelloWire(Challenge0F), ConnectWire(MaxShort, MaxShort),
     ResultWire(1, MaxShort, MaxShort), ResultWire(0, MaxShort, MaxShort - 1),
     Fill(1, 1)}

ErrHelloDecode == HelloDecodeFrom(ErrInputs)

ErrConnectDecode == ConnectDecodeFrom(ErrInputs)

ErrResultDecode == ResultDecodeFrom(ErrInputs)

ErrNewConnect ==
    NewConnectFrom({Fill(97, MaxShort), Fill(97, 65536)}, {Fill(112, MaxShort)})

ErrEncodeMessage == EncodeMessageFrom({Fill(104, MaxShort + 3), Fill(104, MsgCap + 1)})

NextErr ==
    \/ ErrHelloDecode \/ ErrConnectDecode \/ ErrResultDecode
    \/ ErrNewConnect \/ ConnectEncode \/ ErrEncodeMessage

SpecErr == Init /\ [][NextErr]_vars

\* The receivers of Hello.Decode, Connect.Decode, Connect.Encode and
\* EncodeMessage are left as they were by a call that reports an error
ErrorLeavesOthers ==
    /\ (op' = "HelloDecode" /\ err' = "ErrInvalidPacket")
          => rcvHello' = rcvHello
    /\ (op' = "ConnectDecode" /\ err' = "ErrInvalidPacket")
          => rcvConn' = rcvConn
    /\ (op' = "ConnectEncode" /\ err' = "ErrContentTooLong")
          => sndConn' = sndConn
    /\ (op' = "EncodeMessage" /\ err' = "ErrBufferTooShort")
          => sndRes' = sndRes

\* C9 as stated: an operation that reports an error leaves every field of
\* its receiver as it was.
ErrorLeavesReceiver ==
    [][/\ ErrorLeavesOthers
       /\ (op' = "ResultDecode" /\ err' = "ErrInvalidPacket")
             => rcvRes' = rcvRes]_vars

\* C9, amended: so it is for all of them but ConnectResult.Decode, which
\* leaves the message bytes and the recorded length as they were, and the
\* accepted flag too when the buffer has fewer than 2 bytes, but has set the
\* accepted flag from the first byte when it refuses the declared length.
ErrorLeavesReceiverButFlag ==
    [][/\ ErrorLeavesOthers
       /\ (op' = "ResultDecode" /\ err' = "ErrInvalidPacket")
             => /\ rcvRes'.RawMsg = rcvRes.RawMsg
                /\ rcvRes'.MsgLen = rcvRes.MsgLen
                /\ rcvRes'.Welcome = IF buf'.len < 2 THEN rcvRes.Welcome
                                     ELSE BAt(buf'.arr, 0) > 0]_vars

\* ConnectResult.Decode refused a declared length on a receiver that held a
\* message, and left it with the accepted flag of the buffer's first byte.
ErrorLeavesReceiverButFlagWitness ==
    /\ op = "ResultDecode" /\ err = "ErrInvalidPacket"
    /\ buf.len >= 2 /\ BAt(buf.arr, 0) > 0
    /\ rcvRes.Welcome /\ rcvRes.MsgLen > 0

====
